---- MODULE Spec2Model ----
(***************************************************************************)
(* Travel-package history persistence of travengo_api                      *)
(* (src/api/repository.py, TravelPackageRepository): the primary document  *)
(* store, the JSON backup file, and the save / delete / get / list         *)
(* operations with their fall back from the primary store to the file.     *)
(*                                                                         *)
(* main.py builds a repository for every request, so each action is one    *)
(* request: the constructor's probe of the primary store, then the method. *)
(* Every call on the pymongo collection may raise (the server can go away  *)
(* between two calls of one method); the flags an action draws with \E say *)
(* which of its calls raise.  A call that raises has no effect on the      *)
(* primary store.                                                          *)
(*                                                                         *)
(* The runs of SpecRace and SpecSteps take the methods apart, one step per *)
(* call to the primary store or pass over the file, for two workers that   *)
(* serve requests side by side and may keep a repository over requests.    *)
(***************************************************************************)
EXTENDS Integers, Sequences, FiniteSets, TLC

\* ---- bounds of the model ----
MaxTime == 2          \* the clock runs over 0..MaxTime ticks
MaxSaves == 2         \* save requests in one run
MaxUserSaves == 3     \* save requests in one run of the saves with user ids

\* Two clock ticks fall into one second of strftime("%Y%m%d%H%M%S").
TicksPerSecond == 2

MaxLimit == 2         \* the limits of a list request are 1..MaxLimit
MaxRaceRequests == 3  \* requests in one run of two workers saving and deleting

None == "None"                         \* Python's None (for string fields)
NoId == 0 - 1                             \* no history id
SessionIds == {"s1", "s2"}
UserArgs == {None}                     \* user_id: Optional[str]
Users == {None, "u1"}                  \* user_id: no user, a user

\* TravelPackage: package_id and the rest of its fields (flights, hotel,
\* activities, price) collapsed into one payload value.
Pkg(id, payload) == [package_id |-> id, payload |-> payload]

\* the incoming lists a save is called with: one package, and a list that
\* repeats the id of that package (with other contents), brings a new id
\* and repeats the new id within itself
PackageLists == { <<Pkg(1, "a")>>,
                  <<Pkg(1, "b"), Pkg(2, "a"), Pkg(2, "b")>> }

\* the incoming list of the runs that are about the entries, not the packages
OnePackage == { <<Pkg(1, "a")>> }

\* limit: int = Query(10, ge=1, le=100)
Limits == 1 .. MaxLimit

VARIABLES
    dirExists,   \* whether the directory models/ of backup_path exists
    db,          \* the primary collection: its documents in natural order
    file,        \* the backup file: [st: "missing" | "corrupt" | "shape" | "ok",
                 \*                   history]
    now,         \* the clock, in ticks
    saves,       \* save requests served so far
    last,        \* the last repository call: its arguments, path and result
    first,       \* per session, the history_id its first save returned
    procs        \* per worker, its repository and the request it is serving

vars == <<dirExists, db, file, now, saves, last, first, procs>>

\* ---------------------------------------------------------------------------
\* models.py
\* ---------------------------------------------------------------------------

\* history_id: datetime.now().strftime("%Y%m%d%H%M%S"), the clock cut to seconds
HistoryIdAt(t) == t \div TicksPerSecond

\* TravelPackageHistory(travel_packages=, user_id=, session_id=).dict()
TravelPackageHistory(pkgs, uid, sid, t) ==
    [ history_id      |-> HistoryIdAt(t),
      timestamp       |-> t,
      travel_packages |-> pkgs,
      user_id         |-> uid,
      session_id      |-> sid,
      message         |-> None ]

HistoryIds == 0 .. HistoryIdAt(MaxTime)

\* ---------------------------------------------------------------------------
\* sequence helpers
\* ---------------------------------------------------------------------------

\* index of the first record of s whose field has the value, 0 when none has
FirstIndex(s, field, value) ==
    IF \E i \in 1..Len(s) : s[i][field] = value
    THEN CHOOSE i \in 1..Len(s) :
            s[i][field] = value /\ \A j \in 1..(i - 1) : s[j][field] # value
    ELSE 0

RemoveAt(s, i) == SubSeq(s, 1, i - 1) \o SubSeq(s, i + 1, Len(s))

PackageIds(pkgs) == { pkgs[i].package_id : i \in 1..Len(pkgs) }

\* the packages of a list that carry the package id
WithId(pkgs, id) == SelectSeq(pkgs, LAMBDA p : p.package_id = id)

\* ---------------------------------------------------------------------------
\* the merge rule (repository.py 136-153) and its copy for the file (216-232)
\* ---------------------------------------------------------------------------

\* a faulty merge rule: an incoming package replaces the stored one with its id
MergeReplacing(existing_packages, new_packages) ==
    LET replaced == [ i \in 1..Len(existing_packages) |->
                        LET same == WithId(new_packages, existing_packages[i].package_id)
                        IN IF same = <<>> THEN existing_packages[i] ELSE same[1] ]
    IN replaced \o SelectSeq(new_packages,
                             LAMBDA p : p.package_id \notin PackageIds(existing_packages))

\* a faulty merge rule: the stored packages are dropped
MergeOnlyIncoming(existing_packages, new_packages) == new_packages

\* a faulty merge rule: every incoming package is appended
MergeAppendingAll(existing_packages, new_packages) ==
    existing_packages \o new_packages

\* existing_packages + [pkg for pkg in new_packages
\*                      if pkg.package_id not in existing_package_ids]
MergePackages(existing_packages, new_packages) ==
    existing_packages \o
        SelectSeq(new_packages, LAMBDA p : p.package_id \notin PackageIds(existing_packages))

\* a faulty merge rule: the incoming packages not yet held come first
MergeIncomingFirst(existing_packages, new_packages) ==
    SelectSeq(new_packages, LAMBDA p : p.package_id \notin PackageIds(existing_packages))
        \o existing_packages

\* _fallback_update_json, lines 223-229: the loop that collects the incoming
\* packages whose package_id is not in existing_package_ids
RECURSIVE PackagesToAppend(_, _)
PackagesToAppend(existing_package_ids, new_packages) ==
    IF new_packages = <<>> THEN <<>>
    ELSE LET pkg == Head(new_packages)
             rest == PackagesToAppend(existing_package_ids, Tail(new_packages))
         IN IF pkg.package_id \notin existing_package_ids
            THEN <<pkg>> \o rest
            ELSE rest

\* _fallback_update_json, lines 216-232: the merge it applies to the entry of
\* the file
FallbackMergePackages(existing_packages, new_packages) ==
    LET existing_package_ids ==
            {existing_packages[i].package_id : i \in 1 .. Len(existing_packages)}
    IN existing_packages \o PackagesToAppend(existing_package_ids, new_packages)

\* ---------------------------------------------------------------------------
\* the primary store: the pymongo collection calls the repository makes
\* ---------------------------------------------------------------------------

\* collection.find_one({"session_id": session_id}): the first match in natural
\* order, as a list of zero or one documents
FindOneBySession(coll, sid) ==
    LET i == FirstIndex(coll, "session_id", sid)
    IN IF i = 0 THEN <<>> ELSE <<coll[i]>>

\* collection.find_one({"history_id": history_id}, {'_id': 0})
FindOneById(coll, hid) ==
    LET i == FirstIndex(coll, "history_id", hid)
    IN IF i = 0 THEN <<>> ELSE <<coll[i]>>

\* collection.create_index("history_id", unique=True): insert_one raises
\* DuplicateKeyError when a document already carries the history_id
DuplicateKey(coll, entry) ==
    \E i \in 1..Len(coll) : coll[i].history_id = entry.history_id

\* collection.insert_one(entry_dict), when it does not raise
InsertOne(coll, entry) == Append(coll, entry)

\* collection.update_one({"session_id": session_id},
\*                       {"$set": {"travel_packages": updated_packages}})
UpdateOne(coll, sid, updated_packages) ==
    LET i == FirstIndex(coll, "session_id", sid)
    IN IF i = 0 THEN coll
       ELSE [coll EXCEPT ![i].travel_packages = updated_packages]

\* collection.delete_one({"history_id": history_id}): the first match goes
DeleteOne(coll, hid) ==
    LET i == FirstIndex(coll, "history_id", hid)
    IN IF i = 0 THEN coll ELSE RemoveAt(coll, i)

\* ---------------------------------------------------------------------------
\* the backup file models/travel_package_history.json
\* ---------------------------------------------------------------------------

MissingFile == [st |-> "missing", history |-> <<>>]
CorruptFile == [st |-> "corrupt", history |-> <<>>]
JsonFile(history) == [st |-> "ok", history |-> history]

\* a file some other program left: JSON text that json.load parses, but to a
\* list and not to the object {"history": [...]}
ShapeFile == [st |-> "shape", history |-> <<>>]

\* open(backup_path, 'r'); json.load(f); data.get("history", []) went through
Readable(f) == f.st = "ok"

\* json.load(f) went through and data.get raises AttributeError, which the
\* clauses except (json.JSONDecodeError, FileNotFoundError) do not catch
Malformed(f) == f.st = "shape"

\* a faulty _backup_to_json: the snapshot is not written
BackupSkipped(f, history, dir) == f

\* _backup_to_json: open(backup_path, 'w') and dump the snapshot; without the
\* directory open() raises and the error is printed, nothing is written
BackupToJson(f, history, dir) ==
    IF dir THEN JsonFile(history) ELSE f

\* _fallback_update_json: an unreadable file raises into the except clause
\* and nothing is written; otherwise the first entry with the history_id gets
\* the merged list and the history is written back
FallbackUpdateJson(f, hid, travel_packages) ==
    IF ~Readable(f) THEN f
    ELSE LET i == FirstIndex(f.history, "history_id", hid)
         IN IF i = 0 THEN JsonFile(f.history)
            ELSE JsonFile([f.history EXCEPT ![i].travel_packages =
                             FallbackMergePackages(f.history[i].travel_packages,
                                                   travel_packages)])

\* _fallback_save_to_json: a missing or corrupt file reads as [], the entry is
\* appended and the history is written back.  has_object_id: entry_dict went
\* through collection.insert_one, which adds an ObjectId under "_id" to the
\* dict it is given before it sends it; json.dump without MongoJSONEncoder
\* then raises TypeError after open(.., 'w') truncated the file and part of
\* the text was written, and the except clause only prints.  On a malformed
\* file the reading part raises and nothing is written.
FallbackSaveToJson(f, entry_dict, has_object_id, dir) ==
    LET history == IF Readable(f) THEN f.history ELSE <<>>
    IN IF ~dir \/ Malformed(f) THEN f
       ELSE IF has_object_id THEN CorruptFile
       ELSE JsonFile(Append(history, entry_dict))

\* _fallback_get_history_by_id_from_json: first match, None on a missing or
\* corrupt file (on a malformed one it raises, and there is no result)
FallbackGetHistoryByIdFromJson(f, hid) ==
    IF ~Readable(f) THEN <<>> ELSE FindOneById(f.history, hid)

\* _fallback_delete_history_from_json: the first entry with the history_id is
\* deleted and the history written back; False when none, or on any exception
FallbackDeleteHistoryFromJson(f, hid) ==
    IF ~Readable(f) THEN [file |-> f, deleted |-> FALSE]
    ELSE LET i == FirstIndex(f.history, "history_id", hid)
         IN IF i = 0 THEN [file |-> f, deleted |-> FALSE]
            ELSE [file |-> JsonFile(RemoveAt(f.history, i)), deleted |-> TRUE]

\* ---------------------------------------------------------------------------
\* the repository methods, as functions of the state they read
\* ---------------------------------------------------------------------------

\* what fails during one request: the index creation of the constructor
\* (construct), the method's find_one or find(query) (lookup), its update_one /
\* insert_one / delete_one (write), its find({}) for the backup (find)
Failures == [construct : BOOLEAN, lookup : BOOLEAN, write : BOOLEAN, find : BOOLEAN]

\* the failures each method can tell apart: without a collection no call is
\* made, and find({}) runs only after the write went through
SaveFailures ==
    { x \in Failures : (x.construct => ~x.lookup /\ ~x.write /\ ~x.find) /\ ~(x.write /\ x.find) }
DeleteFailures == { x \in SaveFailures : ~x.lookup }

\* the primary store answers every call of a request, or the constructor
\* gave it up
ConstructFailures == { x \in SaveFailures : ~x.lookup /\ ~x.write /\ ~x.find }
GetFailures == { x \in SaveFailures : ~x.write /\ ~x.find }

\* _get_collection: None when self.mongo_uri is None
HasCollection(uri) == uri # None

\* save_travel_packages, lines 111-126: the session is looked up in the
\* primary store only; a lookup that raises leaves existing_entry None
ExistingEntry(uri, coll, session_id, fails) ==
    IF session_id # None /\ HasCollection(uri) /\ ~fails.lookup
    THEN FindOneBySession(coll, session_id)
    ELSE <<>>

\* save_travel_packages, lines 128-171: the branch of an existing entry.
\* When update_one or the find({}) after it raises, the except clause merges
\* into the backup file instead.
SaveExisting(dir, coll, f, existing_entry, travel_packages, session_id, fails) ==
    LET history_id == existing_entry.history_id
        updated_packages == MergePackages(existing_entry.travel_packages, travel_packages)
        updated == UpdateOne(coll, session_id, updated_packages)
    IN IF fails.write
       THEN [db |-> coll,
             file |-> FallbackUpdateJson(f, history_id, travel_packages),
             history_id |-> history_id, path |-> "update_failed", raised |-> FALSE]
       ELSE IF fails.find
       THEN [db |-> updated,
             file |-> FallbackUpdateJson(f, history_id, travel_packages),
             history_id |-> history_id, path |-> "update_backup_failed",
             raised |-> FALSE]
       ELSE [db |-> updated,
             file |-> BackupToJson(f, updated, dir),
             history_id |-> history_id, path |-> "update", raised |-> FALSE]

\* save_travel_packages, lines 172-201: the branch that creates an entry.
\* When insert_one or the find({}) after it raises, the except clause hands
\* the dict insert_one was given to _fallback_save_to_json.  What
\* _fallback_save_to_json raises while it reads the file is caught nowhere and
\* reaches the caller of save_travel_packages.
SaveNew(uri, dir, coll, f, t, travel_packages, user_id, session_id, fails) ==
    LET entry_dict == TravelPackageHistory(travel_packages, user_id, session_id, t)
        history_id == entry_dict.history_id
        inserted == InsertOne(coll, entry_dict)
    IN IF ~HasCollection(uri)
       THEN [db |-> coll,
             file |-> FallbackSaveToJson(f, entry_dict, FALSE, dir),
             history_id |-> history_id, path |-> "file", raised |-> Malformed(f)]
       ELSE IF fails.write \/ DuplicateKey(coll, entry_dict)
       THEN [db |-> coll,
             file |-> FallbackSaveToJson(f, entry_dict, TRUE, dir),
             history_id |-> history_id, path |-> "insert_failed",
             raised |-> Malformed(f)]
       ELSE IF fails.find
       THEN [db |-> inserted,
             file |-> FallbackSaveToJson(f, entry_dict, TRUE, dir),
             history_id |-> history_id, path |-> "insert_backup_failed",
             raised |-> Malformed(f)]
       ELSE [db |-> inserted,
             file |-> BackupToJson(f, inserted, dir),
             history_id |-> history_id, path |-> "insert", raised |-> FALSE]

\* save_travel_packages
SaveTravelPackages(uri, dir, coll, f, t, travel_packages, user_id, session_id, fails) ==
    LET existing_entry == ExistingEntry(uri, coll, session_id, fails)
    IN IF existing_entry # <<>>
       THEN SaveExisting(dir, coll, f, existing_entry[1], travel_packages, session_id, fails)
       ELSE SaveNew(uri, dir, coll, f, t, travel_packages, user_id, session_id, fails)

\* delete_history: when delete_one or the find({}) after it raises, the except
\* clause deletes from the backup file and returns what that found
DeleteHistory(uri, dir, coll, f, history_id, fails) ==
    LET after == DeleteOne(coll, history_id)
        deleted == after # coll
        fallback == FallbackDeleteHistoryFromJson(f, history_id)
    IN IF ~HasCollection(uri)
       THEN [db |-> coll, file |-> fallback.file,
             deleted |-> fallback.deleted, path |-> "file"]
       ELSE IF fails.write
       THEN [db |-> coll, file |-> fallback.file,
             deleted |-> fallback.deleted, path |-> "delete_failed"]
       ELSE IF deleted /\ fails.find
       THEN [db |-> after, file |-> fallback.file,
             deleted |-> fallback.deleted, path |-> "delete_backup_failed"]
       ELSE [db |-> after,
             file |-> IF deleted THEN BackupToJson(f, after, dir) ELSE f,
             deleted |-> deleted, path |-> "primary"]

\* get_history_by_id: the entry as a list of zero (None) or one documents;
\* what the fallback raises reaches the caller
GetHistoryById(uri, coll, f, history_id, fails) ==
    IF ~HasCollection(uri)
    THEN [entry |-> FallbackGetHistoryByIdFromJson(f, history_id), path |-> "file",
          raised |-> Malformed(f)]
    ELSE IF fails.lookup
    THEN [entry |-> FallbackGetHistoryByIdFromJson(f, history_id),
          path |-> "lookup_failed", raised |-> Malformed(f)]
    ELSE [entry |-> FindOneById(coll, history_id), path |-> "primary",
          raised |-> FALSE]

\* a faulty filter: the session_id is not looked at
MatchesUser(entry, user_id, session_id) ==
    user_id # None => entry.user_id = user_id

\* get_history: the entries that carry the user_id and the session_id, for
\* each of the two that is given (if user_id: / if session_id:)
Matches(entry, user_id, session_id) ==
    /\ user_id # None => entry.user_id = user_id
    /\ session_id # None => entry.session_id = session_id

Filter(history, user_id, session_id) ==
    SelectSeq(history, LAMBDA e : Matches(e, user_id, session_id))

\* newest first.  The timestamps are isoformat() strings of one format, whose
\* order as strings is the order of the clock values they were made from.
NewestFirst(s) == \A i \in 1..(Len(s) - 1) : s[i].timestamp >= s[i + 1].timestamp

\* cursor.sort("timestamp", -1): the documents newest first; the server
\* leaves the order among documents of one timestamp open
SortCursor(docs) ==
    { t \in { [i \in 1..Len(docs) |-> docs[p[i]]] : p \in Permutations(1..Len(docs)) } :
        NewestFirst(t) }

\* history.sort(key=lambda x: x.get("timestamp", ""), reverse=True): a stable
\* sort, entries of one timestamp keep the order they had
RECURSIVE SortList(_)
SortList(history) ==
    IF history = <<>> THEN <<>>
    ELSE LET rest == SortList(Tail(history))
             e == Head(history)
             at == IF \E i \in 1..Len(rest) : rest[i].timestamp <= e.timestamp
                   THEN CHOOSE i \in 1..Len(rest) :
                           /\ rest[i].timestamp <= e.timestamp
                           /\ \A j \in 1..(i - 1) : rest[j].timestamp > e.timestamp
                   ELSE Len(rest) + 1
         IN SubSeq(rest, 1, at - 1) \o <<e>> \o SubSeq(rest, at, Len(rest))

\* a faulty truncation: the whole list
TruncateNothing(s, limit) == s

\* cursor.limit(limit) and history[:limit], for the limits main.py lets
\* through (limit >= 1)
Truncate(s, limit) == SubSeq(s, 1, IF limit < Len(s) THEN limit ELSE Len(s))

\* _fallback_get_history_from_json: [] on a missing or corrupt file
FallbackGetHistoryFromJson(f, limit, user_id, session_id) ==
    IF ~Readable(f) THEN <<>>
    ELSE Truncate(SortList(Filter(f.history, user_id, session_id)), limit)

\* get_history: the lists it may return (more than one when the primary store
\* sorts documents of one timestamp); what the fallback raises reaches the
\* caller
GetHistory(uri, coll, f, limit, user_id, session_id, fails) ==
    IF ~HasCollection(uri)
    THEN [entries |-> {FallbackGetHistoryFromJson(f, limit, user_id, session_id)},
          path |-> "file", raised |-> Malformed(f)]
    ELSE IF fails.lookup
    THEN [entries |-> {FallbackGetHistoryFromJson(f, limit, user_id, session_id)},
          path |-> "lookup_failed", raised |-> Malformed(f)]
    ELSE [entries |-> { Truncate(t, limit) :
                          t \in SortCursor(Filter(coll, user_id, session_id)) },
          path |-> "primary", raised |-> FALSE]

\* _fallback_get_history_by_session_id_from_json: first match; None on any
\* exception
FallbackGetHistoryBySessionIdFromJson(f, session_id) ==
    IF ~Readable(f) THEN <<>> ELSE FindOneBySession(f.history, session_id)

\* get_history_by_session_id: the entry as a list of zero (None) or one
\* documents
GetHistoryBySessionId(uri, coll, f, session_id, fails) ==
    IF ~HasCollection(uri)
    THEN [entry |-> FallbackGetHistoryBySessionIdFromJson(f, session_id),
          path |-> "file", raised |-> FALSE]
    ELSE IF fails.lookup
    THEN [entry |-> FallbackGetHistoryBySessionIdFromJson(f, session_id),
          path |-> "lookup_failed", raised |-> FALSE]
    ELSE [entry |-> FindOneBySession(coll, session_id), path |-> "primary",
          raised |-> FALSE]

\* ---------------------------------------------------------------------------
\* the state machine: one action per request handler of main.py
\* ---------------------------------------------------------------------------

\* TravelPackagesRequest without its travel_packages: the body of a POST
\* /travel-packages
TravelPackagesRequest(sessionId, message) ==
    [sessionId |-> sessionId, message |-> message]

\* the call did not come from the POST handler
NoRequest == TravelPackagesRequest(None, None)

\* the handler answered nothing
NoResponse == [history_id |-> NoId, session_id |-> None]

\* the record of the last call: its arguments, the path it took and what it
\* returned (entry: the documents returned, a list also for the calls that
\* return one document or None); limit and user_id are arguments of get_history
Call(op, session_id, history_id, travel_packages, path, deleted, entry) ==
    [ op |-> op, session_id |-> session_id, history_id |-> history_id,
      travel_packages |-> travel_packages, path |-> path,
      deleted |-> deleted, entry |-> entry,
      raised |-> FALSE, limit |-> 0, user_id |-> None,
      request |-> NoRequest, query |-> None, token |-> None,
      response |-> NoResponse ]

\* the record of a call that raised to its caller: it returned nothing
Raised(op, session_id, history_id, travel_packages, path) ==
    [ Call(op, session_id, history_id, travel_packages, path, FALSE, <<>>)
        EXCEPT !.raised = TRUE ]

NoCall == Call("none", None, NoId, <<>>, "none", FALSE, <<>>)

\* TravelPackageRepository.__init__ -> _ensure_collection_exists: when the
\* index creation raises, self.mongo_uri becomes None
MongoUri(fails) == IF fails.construct THEN None ELSE "set"

\* _ensure_collection_exists: the directory of the backup file is created
\* only after the index creation went through
EnsureDirectory(dir, fails) == dir \/ ~fails.construct

\* the workers that serve requests side by side
Procs == {"p1", "p2"}

\* a worker that serves no request and holds no repository.  pc: where the
\* worker is in the method it runs; mongo_uri: self.mongo_uri of its
\* repository; existing_entry, entry_dict, all_history: the method's locals;
\* entry, deleted: what the method returned; trail: the steps of the method
\* so far; stale: another worker wrote to the primary store between this
\* worker's lookup and its own write
NewProc ==
    [ pc |-> "new", mongo_uri |-> None, op |-> "none",
      session_id |-> None, history_id |-> NoId, travel_packages |-> <<>>,
      fails |-> [construct |-> FALSE, lookup |-> FALSE, write |-> FALSE, find |-> FALSE],
      existing_entry |-> <<>>, entry_dict |-> <<>>, all_history |-> <<>>,
      limit |-> 0, entry |-> <<>>, deleted |-> FALSE, trail |-> <<>>,
      stale |-> FALSE ]

\* Nothing is stored yet, the backup file does not exist, and its directory
\* may or may not.
Init ==
    /\ dirExists \in BOOLEAN
    /\ db = <<>>
    /\ file = MissingFile
    /\ now = 0
    /\ saves = 0
    /\ last = NoCall
    /\ first = [s \in SessionIds |-> NoId]
    /\ procs = [p \in Procs |-> NewProc]

\* the clock advances
Tick ==
    /\ now < MaxTime
    /\ now' = now + 1
    /\ UNCHANGED <<dirExists, db, file, saves, last, first, procs>>

\* POST /travel-packages: get_repository builds a repository, then
\* save_travel_packages, with the package lists, the user ids and the failures
\* given, while fewer than `budget` save requests were served
SaveRequest(lists, users, failures, budget) ==
    \E travel_packages \in lists, user_id \in users,
       session_id \in SessionIds, fails \in failures :
        LET dir == EnsureDirectory(dirExists, fails)
            r == SaveTravelPackages(MongoUri(fails), dir, db, file, now,
                                    travel_packages, user_id, session_id, fails)
        IN /\ saves < budget
           /\ saves' = saves + 1
           /\ dirExists' = dir
           /\ db' = r.db
           /\ file' = r.file
           /\ last' = IF r.raised
                      THEN [ Raised("save", session_id, NoId, travel_packages, r.path)
                               EXCEPT !.user_id = user_id ]
                      ELSE [ Call("save", session_id, r.history_id, travel_packages,
                                  r.path, FALSE, <<>>)
                               EXCEPT !.user_id = user_id ]
           /\ first' = IF first[session_id] = NoId /\ ~r.raised
                       THEN [first EXCEPT ![session_id] = r.history_id]
                       ELSE first
           /\ UNCHANGED <<now, procs>>

Save == SaveRequest(PackageLists, UserArgs, SaveFailures, MaxSaves)

\* the session ids and messages a client may send: absent, empty, or a value
BodySessionIds == {None, "", "s1"}
QuerySessionIds == {None, "", "s2"}
Messages == {None, "m"}

\* what str(uuid.uuid4()) may give
Tokens == SessionIds

\* Python's truth value of an Optional[str]
Truthy(str) == str # None /\ str # ""

\* a faulty choice of the session id: the query parameter goes first
QueryFirst(sessionId, session_id, token) ==
    IF Truthy(session_id) THEN session_id
    ELSE IF Truthy(sessionId) THEN sessionId
    ELSE token

\* main.py 74-77: the session id the handler works with
HandlerSessionId(sessionId, session_id, token) ==
    IF Truthy(sessionId) THEN sessionId
    ELSE IF ~Truthy(session_id) THEN token
    ELSE session_id

\* POST /travel-packages, main.py 60-90: the handler picks the session id,
\* calls save_travel_packages with the packages, the user_id and that session
\* id, and answers with the history_id it got and the session id it used
PostTravelPackages ==
    \E travel_packages \in OnePackage, sessionId \in BodySessionIds,
       message \in Messages, user_id \in UserArgs, query \in QuerySessionIds,
       token \in Tokens, fails \in SaveFailures :
        LET request == TravelPackagesRequest(sessionId, message)
            session_id == HandlerSessionId(request.sessionId, query, token)
            dir == EnsureDirectory(dirExists, fails)
            r == SaveTravelPackages(MongoUri(fails), dir, db, file, now,
                                    travel_packages, user_id, session_id, fails)
        IN /\ saves < MaxSaves
           /\ saves' = saves + 1
           /\ dirExists' = dir
           /\ db' = r.db
           /\ file' = r.file
           /\ last' = IF r.raised
                      THEN [ Raised("save", session_id, NoId, travel_packages, r.path)
                               EXCEPT !.user_id = user_id, !.request = request,
                                      !.query = query, !.token = token ]
                      ELSE [ Call("save", session_id, r.history_id, travel_packages,
                                  r.path, FALSE, <<>>)
                               EXCEPT !.user_id = user_id, !.request = request,
                                      !.query = query, !.token = token,
                                      !.response = [history_id |-> r.history_id,
                                                    session_id |-> session_id] ]
           /\ first' = IF session_id \in SessionIds /\ ~r.raised
                          /\ first[session_id] = NoId
                       THEN [first EXCEPT ![session_id] = r.history_id]
                       ELSE first
           /\ UNCHANGED <<now, procs>>

\* DELETE /travel-packages/history/{history_id}
Delete ==
    \E history_id \in HistoryIds, fails \in DeleteFailures :
        LET dir == EnsureDirectory(dirExists, fails)
            r == DeleteHistory(MongoUri(fails), dir, db, file, history_id, fails)
        IN /\ dirExists' = dir
           /\ db' = r.db
           /\ file' = r.file
           /\ last' = Call("delete", None, history_id, <<>>, r.path, r.deleted, <<>>)
           /\ UNCHANGED <<now, saves, first, procs>>

\* a faulty open, with mode 'w': a file that is there is cut to nothing
OpenToWrite(f) == IF f = MissingFile THEN f ELSE CorruptFile

\* with open(self.backup_path, 'r'): the file stays as it is
OpenToRead(f) == f

\* the backup file after a read request: the fallbacks open it to read
AfterRead(f, path) == IF path = "primary" THEN f ELSE OpenToRead(f)

\* GET /travel-packages/history/{history_id}
GetById ==
    \E history_id \in HistoryIds, fails \in GetFailures :
        LET r == GetHistoryById(MongoUri(fails), db, file, history_id, fails)
        IN /\ dirExists' = EnsureDirectory(dirExists, fails)
           /\ file' = AfterRead(file, r.path)
           /\ last' = IF r.raised
                      THEN Raised("get_by_id", None, history_id, <<>>, r.path)
                      ELSE Call("get_by_id", None, history_id, <<>>, r.path,
                                FALSE, r.entry)
           /\ UNCHANGED <<db, now, saves, first, procs>>

\* GET /travel-packages/history and /travel-packages/history/session/{id}:
\* get_history
List ==
    \E limit \in Limits, user_id \in Users, session_id \in SessionIds \cup {None},
       fails \in GetFailures :
        LET r == GetHistory(MongoUri(fails), db, file, limit, user_id, session_id, fails)
        IN \E entries \in r.entries :
            /\ dirExists' = EnsureDirectory(dirExists, fails)
            /\ file' = AfterRead(file, r.path)
            /\ last' = [ ( IF r.raised
                           THEN Raised("list", session_id, NoId, <<>>, r.path)
                           ELSE Call("list", session_id, NoId, <<>>, r.path,
                                     FALSE, entries) )
                          EXCEPT !.limit = limit, !.user_id = user_id ]
            /\ UNCHANGED <<db, now, saves, first, procs>>

\* get_history_by_session_id
GetBySession ==
    \E session_id \in SessionIds, fails \in GetFailures :
        LET r == GetHistoryBySessionId(MongoUri(fails), db, file, session_id, fails)
        IN /\ dirExists' = EnsureDirectory(dirExists, fails)
           /\ file' = AfterRead(file, r.path)
           /\ last' = Call("get_by_session", session_id, NoId, <<>>, r.path,
                           FALSE, r.entry)
           /\ UNCHANGED <<db, now, saves, first, procs>>

Next == Tick \/ Save \/ Delete \/ GetById

Spec == Init /\ [][Next]_vars

\* the runs that only save (and read): no entry is ever deleted
NextSaves == Tick \/ Save \/ GetById

SpecSaves == Init /\ [][NextSaves]_vars

\* the runs of saves with and without a user id, and of list requests
SaveForUser == SaveRequest(OnePackage, Users, ConstructFailures, MaxSaves)

NextList == Tick \/ SaveForUser \/ List

SpecList == Init /\ [][NextList]_vars

\* the runs of saves with and without a user id, every call free to fail
SaveAsUser == SaveRequest(PackageLists, Users, SaveFailures, MaxUserSaves)

NextUsers == Tick \/ SaveAsUser

SpecUsers == Init /\ [][NextUsers]_vars

\* the runs of saves whose list of packages may be empty
SaveAnyList == SaveRequest(PackageLists \cup {<<>>}, UserArgs, SaveFailures, MaxSaves)

NextMerge == Tick \/ SaveAnyList

SpecMerge == Init /\ [][NextMerge]_vars

\* the POST handler with all it reads from the request
NextHandler == Tick \/ PostTravelPackages

SpecHandler == Init /\ [][NextHandler]_vars

\* ---------------------------------------------------------------------------
\* the methods call by call: requests served side by side by two workers,
\* each step one call to the primary store or one pass over the file
\* ---------------------------------------------------------------------------

NoFailure == [construct |-> FALSE, lookup |-> FALSE, write |-> FALSE, find |-> FALSE]

\* the pymongo calls a method makes, in the order it makes them
CallsOf(op) ==
    IF op = "save" THEN {"lookup", "write", "find"}
    ELSE IF op = "delete" THEN {"write", "find"}
    ELSE {"lookup"}

\* the failures that matter to a method: those of the calls it makes, and
\* none when it has no collection to call (get_chat_history_by_session_id
\* makes its call whatever self.mongo_uri is)
StepFailures(op, uri, failures) ==
    { x \in failures :
        /\ ~x.construct
        /\ x.lookup => "lookup" \in CallsOf(op)
        /\ x.write => "write" \in CallsOf(op)
        /\ x.find => "find" \in CallsOf(op)
        /\ (~HasCollection(uri) /\ op # "get_chat") => x = NoFailure }

\* where a method starts: at its fallback when _get_collection() gave None,
\* else at its first call
FirstStep(op, uri) ==
    IF op = "get_chat" THEN "lookup"
    ELSE IF ~HasCollection(uri) THEN "fallback"
    ELSE IF op = "delete" THEN "write"
    ELSE "lookup"

\* a faulty except clause: the call that raised is made once more
RetryOnce(step, trail) ==
    IF Len(SelectSeq(trail, LAMBDA t : t = step)) < 2 THEN step ELSE "fallback"

\* the except clause of a call that raised: the fallback of the method
OnError(step, trail) == "fallback"

\* the worker is done with its request and keeps its repository
Done(proc, step) ==
    [proc EXCEPT !.pc = "idle", !.trail = Append(proc.trail, step)]

\* the worker made the call and goes on to the next
Goto(proc, step, next) ==
    [proc EXCEPT !.pc = next, !.trail = Append(proc.trail, step)]

\* the call raised
Fail(proc, step) ==
    Goto(proc, step, OnError(step, Append(proc.trail, step)))

\* another worker's write to the primary store makes stale what a save has
\* looked up and not yet written
MarkStale(ps, p, changed) ==
    [q \in Procs |->
        IF q # p /\ changed /\ ps[q].op = "save" /\ ps[q].pc = "write"
        THEN [ps[q] EXCEPT !.stale = TRUE]
        ELSE ps[q]]

\* get_repository -> TravelPackageRepository(): a worker builds the repository
\* of its next request; _ensure_collection_exists sets mongo_uri to None when
\* the index creation raises and creates the directory when it does not
Construct(p, failures) ==
    \E fails \in {x \in failures : ~x.lookup /\ ~x.write /\ ~x.find} :
        /\ procs[p].pc \in {"new", "idle"}
        /\ procs' = [procs EXCEPT ![p] =
                        [NewProc EXCEPT !.pc = "idle", !.mongo_uri = MongoUri(fails)]]
        /\ dirExists' = EnsureDirectory(dirExists, fails)
        /\ UNCHANGED <<db, file, now, saves, last, first>>

\* the calls of the repository's methods with their arguments: the five
\* methods the handlers of main.py call (get_history here without a filter)
\* and get_chat_history_by_session_id
Request(op, session_id, history_id, travel_packages, limit) ==
    [op |-> op, session_id |-> session_id, history_id |-> history_id,
     travel_packages |-> travel_packages, limit |-> limit]

Requests(lists) ==
    {Request("save", s, NoId, l, 0) : s \in SessionIds, l \in lists}
      \cup {Request(op, None, h, <<>>, 0) : op \in {"delete", "get_by_id"}, h \in HistoryIds}
      \cup {Request(op, s, NoId, <<>>, 0) : op \in {"get_by_session", "get_chat"},
                                            s \in SessionIds}
      \cup {Request("list", None, NoId, <<>>, n) : n \in Limits}

\* a method of the worker's repository is called
Begin(p, ops, lists, failures, budget) ==
    \E r \in {x \in Requests(lists) : x.op \in ops} :
      \E fails \in StepFailures(r.op, procs[p].mongo_uri, failures) :
        /\ procs[p].pc = "idle"
        /\ saves < budget
        /\ saves' = saves + 1
        /\ procs' = [procs EXCEPT ![p] =
              [NewProc EXCEPT
                 !.pc = FirstStep(r.op, procs[p].mongo_uri),
                 !.mongo_uri = procs[p].mongo_uri,
                 !.op = r.op,
                 !.fails = fails,
                 !.session_id = r.session_id,
                 !.history_id = r.history_id,
                 !.travel_packages = r.travel_packages,
                 !.limit = r.limit]]
        /\ UNCHANGED <<dirExists, db, file, now, last, first>>

\* the method's find_one, or find(query).sort().limit() of get_history.
\* save_travel_packages goes on without an entry when its find_one raises;
\* the reads return what the call gave or fall back
Lookup(p) ==
    LET proc == procs[p]
    IN /\ proc.pc = "lookup"
       /\ IF proc.op = "save"
          THEN LET existing_entry == IF proc.fails.lookup THEN <<>>
                                     ELSE FindOneBySession(db, proc.session_id)
               IN procs' = [procs EXCEPT ![p] =
                     Goto([proc EXCEPT
                             !.existing_entry = existing_entry,
                             !.history_id = IF existing_entry = <<>> THEN NoId
                                            ELSE existing_entry[1].history_id],
                          "lookup", "write")]
          ELSE IF proc.op = "get_chat"
          THEN \E chat_history \in {<<>>, <<"chat">>} :
                 /\ proc.fails.lookup => chat_history = <<>>
                 /\ procs' = [procs EXCEPT ![p] =
                       Done([proc EXCEPT !.entry = chat_history], "lookup")]
          ELSE IF proc.fails.lookup
          THEN procs' = [procs EXCEPT ![p] = Fail(proc, "lookup")]
          ELSE \E entries \in
                   IF proc.op = "get_by_id" THEN {FindOneById(db, proc.history_id)}
                   ELSE IF proc.op = "get_by_session"
                   THEN {FindOneBySession(db, proc.session_id)}
                   ELSE {Truncate(t, proc.limit) : t \in SortCursor(Filter(db, None, None))} :
                 procs' = [procs EXCEPT ![p] =
                              Done([proc EXCEPT !.entry = entries], "lookup")]
       /\ UNCHANGED <<dirExists, db, file, now, saves, last, first>>

\* the method's update_one, insert_one or delete_one
Write(p) ==
    LET proc == procs[p]
        entry_dict == TravelPackageHistory(proc.travel_packages, None,
                                           proc.session_id, now)
        updated == UpdateOne(db, proc.session_id,
                             MergePackages(proc.existing_entry[1].travel_packages,
                                           proc.travel_packages))
        after == DeleteOne(db, proc.history_id)
        raises == \/ proc.fails.write
                  \/ /\ proc.op = "save"
                     /\ proc.existing_entry = <<>>
                     /\ DuplicateKey(db, entry_dict)
        made == IF proc.op = "delete" THEN [proc EXCEPT !.deleted = after # db]
                ELSE IF proc.existing_entry # <<>> THEN proc
                ELSE [proc EXCEPT !.entry_dict = <<entry_dict>>,
                                  !.history_id = entry_dict.history_id]
    IN /\ proc.pc = "write"
       /\ db' = IF raises THEN db
                ELSE IF proc.op = "delete" THEN after
                ELSE IF proc.existing_entry # <<>> THEN updated
                ELSE InsertOne(db, entry_dict)
       /\ procs' = MarkStale(
             [procs EXCEPT ![p] =
                 IF raises THEN Fail(made, "write")
                 ELSE IF proc.op = "delete" /\ after = db THEN Done(made, "write")
                 ELSE Goto(made, "write", "find")],
             p, db' # db)
       /\ UNCHANGED <<dirExists, file, now, saves, last, first>>

\* all_history = list(collection.find({}, {'_id': 0}))
Find(p) ==
    LET proc == procs[p]
    IN /\ proc.pc = "find"
       /\ procs' = [procs EXCEPT ![p] =
             IF proc.fails.find THEN Fail(proc, "find")
             ELSE Goto([proc EXCEPT !.all_history = db], "find", "backup")]
       /\ UNCHANGED <<dirExists, db, file, now, saves, last, first>>

\* self._backup_to_json(all_history)
Backup(p) ==
    LET proc == procs[p]
    IN /\ proc.pc = "backup"
       /\ file' = BackupToJson(file, proc.all_history, dirExists)
       /\ procs' = [procs EXCEPT ![p] = Done(proc, "backup")]
       /\ UNCHANGED <<dirExists, db, now, saves, last, first>>

\* the method's _fallback_..._json
Fallback(p) ==
    LET proc == procs[p]
        has_object_id == proc.entry_dict # <<>>
        entry_dict == IF has_object_id THEN proc.entry_dict[1]
                      ELSE TravelPackageHistory(proc.travel_packages, None,
                                                proc.session_id, now)
        deleted == FallbackDeleteHistoryFromJson(file, proc.history_id)
    IN /\ proc.pc = "fallback"
       /\ file' = IF proc.op = "delete" THEN deleted.file
                  ELSE IF proc.op # "save" THEN file
                  ELSE IF proc.existing_entry # <<>>
                  THEN FallbackUpdateJson(file, proc.history_id, proc.travel_packages)
                  ELSE FallbackSaveToJson(file, entry_dict, has_object_id, dirExists)
       /\ procs' = [procs EXCEPT ![p] = Done(
             IF proc.op = "delete" THEN [proc EXCEPT !.deleted = deleted.deleted]
             ELSE IF proc.op = "get_by_id"
             THEN [proc EXCEPT !.entry =
                      FallbackGetHistoryByIdFromJson(file, proc.history_id)]
             ELSE IF proc.op = "get_by_session"
             THEN [proc EXCEPT !.entry =
                      FallbackGetHistoryBySessionIdFromJson(file, proc.session_id)]
             ELSE IF proc.op = "list"
             THEN [proc EXCEPT !.entry =
                      FallbackGetHistoryFromJson(file, proc.limit, None, None)]
             ELSE IF proc.existing_entry # <<>> THEN proc
             ELSE [proc EXCEPT !.history_id = entry_dict.history_id],
             "fallback")]
       /\ UNCHANGED <<dirExists, db, now, saves, last, first>>

\* one call of the method a worker runs
Step(p) == Lookup(p) \/ Write(p) \/ Find(p) \/ Backup(p) \/ Fallback(p)

\* two workers saving and deleting side by side, every pymongo call going
\* through unless the unique index rejects an insert
ConstructReachable == \E p \in Procs : Construct(p, {NoFailure})

BeginWrite ==
    \E p \in Procs : Begin(p, {"save", "delete"}, PackageLists, {NoFailure}, MaxRaceRequests)

StepAny == \E p \in Procs : Step(p)

NextRace == Tick \/ ConstructReachable \/ BeginWrite \/ StepAny

SpecRace == Init /\ [][NextRace]_vars

\* two workers running any method, with every failure of the pymongo calls.
\* A worker is a thread that runs its method to the end: each call returns
\* or raises, so a worker that has a step to take takes it.
ConstructAny == \E p \in Procs : Construct(p, Failures)

Methods == {"save", "delete", "get_by_id", "get_by_session", "list", "get_chat"}

BeginAny == \E p \in Procs : Begin(p, Methods, OnePackage, SaveFailures, MaxSaves)

NextSteps == ConstructAny \/ BeginAny \/ StepAny

SpecSteps ==
    Init /\ [][NextSteps]_vars /\ \A p \in Procs : WF_vars(Step(p))

\* The runs that start with a backup file that is there before the first
\* request, left by an earlier run or by another program: cut off in the
\* middle of a write, or JSON of another shape (or no file).
InitFiles ==
    /\ file \in {MissingFile, CorruptFile, ShapeFile}
    /\ dirExists \in {d \in BOOLEAN : file # MissingFile => d}
    /\ db = <<>>
    /\ now = 0
    /\ saves = 0
    /\ last = NoCall
    /\ first = [s \in SessionIds |-> NoId]
    /\ procs = [p \in Procs |-> NewProc]

NextFiles == Save \/ Delete \/ GetById \/ GetBySession \/ List

SpecFiles == InitFiles /\ [][NextFiles]_vars

\* ---------------------------------------------------------------------------
\* the properties
\* ---------------------------------------------------------------------------

\* the step is a save request
SaveStep == saves' = saves + 1 /\ last'.op = "save"

\* the step is a delete request (the clock's steps leave last as it is)
DeleteStep == now' = now /\ last'.op = "delete"

\* the entries of a store that carry the session id, the history id
OfSession(store, sid) == SelectSeq(store, LAMBDA e : e.session_id = sid)
OfId(store, hid) == SelectSeq(store, LAMBDA e : e.history_id = hid)

\* a list with, per package id, only its first package, in order
RECURSIVE FirstSeen(_)
FirstSeen(pkgs) ==
    IF pkgs = <<>> THEN <<>>
    ELSE LET front == FirstSeen(SubSeq(pkgs, 1, Len(pkgs) - 1))
             p == pkgs[Len(pkgs)]
         IN IF p.package_id \in PackageIds(front) THEN front ELSE Append(front, p)

DistinctPackageIds(pkgs) ==
    \A i, j \in 1..Len(pkgs) : i # j => pkgs[i].package_id # pkgs[j].package_id

\* C1 (as claimed, refuted): while the entry of a session's first save is
\* stored, in the primary store or in the file, every later save for that
\* session returns the history_id the first save returned.
C1_SameHistoryId ==
    [][ \A s \in SessionIds :
          ( /\ SaveStep
            /\ last'.session_id = s
            /\ first[s] # NoId
            /\ \/ OfSession(OfId(db, first[s]), s) # <<>>
               \/ OfSession(OfId(file.history, first[s]), s) # <<>> )
          => last'.history_id = first[s] ]_vars

\* C2 (as claimed, refuted): a save served by the primary store leaves the
\* session's entry with one package per distinct package_id of its former
\* list followed by the incoming list, in first-seen order.
C2_OnePerPackageId ==
    [][ (SaveStep /\ last'.path \in {"insert", "update"})
        => LET s == last'.session_id
               before == OfSession(db, s)
               old == IF before = <<>> THEN <<>> ELSE before[1].travel_packages
           IN /\ OfSession(db', s) # <<>>
              /\ OfSession(db', s)[1].travel_packages =
                     FirstSeen(old \o last'.travel_packages) ]_vars

\* C3 (as claimed, refuted): in both stores the package ids within one entry
\* are pairwise distinct.
C3_UniquePackageIds ==
    /\ \A i \in 1..Len(db) : DistinctPackageIds(db[i].travel_packages)
    /\ \A i \in 1..Len(file.history) : DistinctPackageIds(file.history[i].travel_packages)

\* what a save may do to the entry at one place of a store, for C4: the
\* packages whose id the entry already held are the same ones as before, and
\* an incoming list of held ids only leaves the list as it was
PresentIdsUntouched(before, after, incoming) ==
    /\ \A id \in PackageIds(before.travel_packages) :
          WithId(after.travel_packages, id) = WithId(before.travel_packages, id)
    /\ PackageIds(incoming) \subseteq PackageIds(before.travel_packages)
          => after.travel_packages = before.travel_packages

\* C4: a save to a session leaves alone every package whose package_id the
\* session's stored entry already holds (not duplicated, not replaced), and
\* a save of already-held ids only leaves the entry's travel_packages
\* unchanged: in the primary store on every save, and in the file when the
\* save merges into it or appends to it.
C4_PresentIdIsNoOp ==
    [][ SaveStep =>
        /\ \A i \in 1..Len(db) :
              db[i].session_id = last'.session_id
              => /\ i <= Len(db')
                 /\ PresentIdsUntouched(db[i], db'[i], last'.travel_packages)
        /\ last'.path \in {"update_failed", "update_backup_failed", "file"}
           => \A i \in 1..Len(file.history) :
                 file.history[i].session_id = last'.session_id
                 => /\ i <= Len(file'.history)
                    /\ PresentIdsUntouched(file.history[i], file'.history[i],
                                           last'.travel_packages) ]_vars

\* C4 witness: a save brought package 1 with other contents (and a new id)
\* to an entry that held package 1, and the entry holds the old package 1
C4_Witness ==
    /\ last.op = "save"
    /\ last.path = "update"
    /\ last.travel_packages = <<Pkg(1, "b"), Pkg(2, "a"), Pkg(2, "b")>>
    /\ \E i \in 1..Len(db) :
          /\ db[i].session_id = last.session_id
          /\ WithId(db[i].travel_packages, 1) = <<Pkg(1, "a")>>
          /\ WithId(db[i].travel_packages, 2) # <<>>

\* C5 (as claimed, refuted): no save produces a second entry for a session:
\* neither store holds two entries with one session_id.
C5_OneEntryPerSession ==
    \A s \in SessionIds :
        /\ Len(OfSession(db, s)) <= 1
        /\ Len(OfSession(file.history, s)) <= 1

\* C6 (as claimed, refuted): with the primary store unreachable, after a save
\* for a new session returned H, get_by_id(H) returns the saved entry from
\* the file.
C6_SavedThenFound ==
    [][ ( /\ last.op = "save"
          /\ last.path = "file"
          /\ OfSession(db, last.session_id) = <<>>
          /\ Len(OfSession(file.history, last.session_id)) <= 1
          /\ last'.op = "get_by_id"
          /\ last'.path = "file"
          /\ last'.history_id = last.history_id )
        => /\ last'.entry # <<>>
           /\ last'.entry[1].history_id = last.history_id
           /\ last'.entry[1].session_id = last.session_id
           /\ last'.entry[1].travel_packages = last.travel_packages ]_vars

\* C7 (as claimed, refuted): with the primary store unavailable, a save for a
\* session that has an entry in the file merges into that entry and returns
\* its history_id; it creates no entry.
C7_FallbackMerges ==
    [][ ( /\ SaveStep
          /\ last'.path = "file"
          /\ OfSession(file.history, last'.session_id) # <<>> )
        => /\ last'.history_id = OfSession(file.history, last'.session_id)[1].history_id
           /\ Len(file'.history) = Len(file.history) ]_vars

\* the last call wrote to the primary store: an insert or an update of save
\* went through, or a delete removed a document
PrimaryWritten ==
    \/ last.op = "save" /\ last.path \in {"insert", "update",
                                          "insert_backup_failed", "update_backup_failed"}
    \/ last.op = "delete" /\ last.path = "primary" /\ last.deleted
    \/ last.op = "delete" /\ last.path = "delete_backup_failed"

\* the last call wrote to the primary store and no call of it raised
PrimaryWrittenNoError ==
    \/ last.op = "save" /\ last.path \in {"insert", "update"}
    \/ last.op = "delete" /\ last.path = "primary" /\ last.deleted

Availability(path) ==
    CASE path = "primary" -> "up"
      [] path = "file" -> "disabled"
      [] path \in {"delete_failed", "lookup_failed"} -> "down"
      [] OTHER -> "mixed"

\* C9 (as claimed, refuted): delete(H) followed by get_by_id(H), the primary
\* store answering both the same way, returns None.
C9_DeletedThenAbsent ==
    [][ ( /\ last.op = "delete"
          /\ last'.op = "get_by_id"
          /\ last'.history_id = last.history_id
          /\ Availability(last'.path) = Availability(last.path) )
        => last'.entry = <<>> ]_vars

\* C10 (as claimed, refuted): delete(H) returns true exactly when it removed
\* an entry with history_id H from the primary store or from the file.
C10_DeletedIffRemoved ==
    [][ DeleteStep =>
        ( last'.deleted <=>
             \/ Len(OfId(db', last'.history_id)) < Len(OfId(db, last'.history_id))
             \/ Len(OfId(file'.history, last'.history_id))
                    < Len(OfId(file.history, last'.history_id)) ) ]_vars

\* ---------------------------------------------------------------------------
\* the list requests
\* ---------------------------------------------------------------------------

\* the last call was a list request that returned
Listed == last.op = "list" /\ ~last.raised

\* the entries of the store that answered the last read: the primary store,
\* or the history of the file (none when it cannot be read)
StoreRead ==
    IF last.path = "primary" THEN db
    ELSE IF Readable(file) THEN file.history ELSE <<>>

\* C11: a list request with limit N returns at most N entries, each entry's
\* timestamp at least the next one's, from the primary store and from the
\* file.
C11_AtMostLimitNewestFirst ==
    Listed => Len(last.entry) <= last.limit /\ NewestFirst(last.entry)

\* C11 witness: a list request with limit 1 returned the newer of two
\* entries of the file, the older one first in the file
C11_Witness ==
    /\ Listed
    /\ last.path = "file"
    /\ last.limit = 1
    /\ last.user_id = None /\ last.session_id = None
    /\ Len(StoreRead) = 2
    /\ StoreRead[1].timestamp < StoreRead[2].timestamp
    /\ last.entry = <<StoreRead[2]>>

\* result holds the entries at the places `chosen` of matching, each once
HoldsChosen(result, matching, chosen) ==
    \E p \in [1..Len(result) -> chosen] :
        /\ \A i, j \in 1..Len(result) : i # j => p[i] # p[j]
        /\ \A i \in 1..Len(result) : result[i] = matching[p[i]]

\* C12: a list request returns the newest `limit` of the entries that carry
\* the user_id given and the session_id given: all of them when they are at
\* most `limit`, no entry that fails a filter, and no entry left out that is
\* newer than one returned; from the primary store and from the file.
C12_NewestMatching ==
    Listed =>
        LET matching == Filter(StoreRead, last.user_id, last.session_id)
            n == IF last.limit < Len(matching) THEN last.limit ELSE Len(matching)
        IN /\ Len(last.entry) = n
           /\ \A i \in 1..Len(last.entry) :
                 /\ last.user_id # None => last.entry[i].user_id = last.user_id
                 /\ last.session_id # None => last.entry[i].session_id = last.session_id
           /\ \E chosen \in SUBSET (1..Len(matching)) :
                 /\ Cardinality(chosen) = n
                 /\ HoldsChosen(last.entry, matching, chosen)
                 /\ \A i \in chosen, j \in (1..Len(matching)) \ chosen :
                       matching[i].timestamp >= matching[j].timestamp

\* C12 witness: a list request with a user_id and a session_id returned the
\* one entry of the primary store that carries both; the other entry carries
\* the user_id and another session_id
C12_Witness ==
    /\ Listed
    /\ last.path = "primary"
    /\ last.user_id = "u1" /\ last.session_id = "s1"
    /\ Len(last.entry) = 1
    /\ \E i \in 1..Len(db) : db[i].user_id = "u1" /\ db[i].session_id = "s2"

\* ---------------------------------------------------------------------------
\* errors
\* ---------------------------------------------------------------------------

\* the last call did not get an answer of either store: the primary store was
\* disabled or raised, and the file is missing, corrupt or malformed
TotalFailure == last.path # "primary" /\ ~Readable(file)

\* C13 (as claimed, refuted): list, get_by_id, get_by_session and delete never
\* raise to the caller, and when neither store answers they return an empty
\* list, None, or false.
C13_ReadsAndDeleteNeverRaise ==
    last.op \in {"list", "get_by_id", "get_by_session", "delete"}
    => /\ ~last.raised
       /\ TotalFailure => last.entry = <<>> /\ ~last.deleted

\* C14 (as claimed, refuted): save never raises and returns a history_id,
\* whatever fails in the primary store and in the file.
C14_SaveAlwaysReturnsId ==
    last.op = "save" => ~last.raised /\ last.history_id \in HistoryIds

\* C15 (as claimed, refuted): get_by_id of a history_id that no entry of
\* either store carries returns None, as a value, with the primary store
\* answering and without it.
C15_AbsentIdReturnsNone ==
    ( /\ last.op = "get_by_id"
      /\ OfId(db, last.history_id) = <<>>
      /\ OfId(file.history, last.history_id) = <<>> )
    => ~last.raised /\ last.entry = <<>>

\* ---------------------------------------------------------------------------
\* what a save leaves alone
\* ---------------------------------------------------------------------------

\* the step is a save that found an entry of its session and merged into it
MergeStep ==
    SaveStep /\ last'.path \in {"update", "update_failed", "update_backup_failed"}

\* two versions of an entry that differ in travel_packages at most
SameButPackages(before, after) ==
    after = [before EXCEPT !.travel_packages = after.travel_packages]

\* a store before and after a merge into the entry of the session with the
\* history_id: no entry more or less, that entry changed in its
\* travel_packages at most, every other entry as it was
OnlyPackagesOf(store, after, session_id, history_id) ==
    /\ Len(after) = Len(store)
    /\ \A i \in 1..Len(store) :
          IF store[i].session_id = session_id /\ store[i].history_id = history_id
          THEN SameButPackages(store[i], after[i])
          ELSE after[i] = store[i]

\* C16 (as claimed, refuted): a save that merges into an existing entry
\* changes nothing but that entry's travel_packages, in the store it merges
\* in: the primary store, and the file when the merge falls back to it.
C16_MergeChangesOnlyPackages ==
    [][ MergeStep =>
        /\ OnlyPackagesOf(db, db', last'.session_id, last'.history_id)
        /\ (last'.path # "update" /\ Readable(file))
           => /\ Readable(file')
              /\ OnlyPackagesOf(file.history, file'.history,
                                last'.session_id, last'.history_id) ]_vars

\* what makes an entry the entry it is: the fields a merge leaves as they are
EntryKey(e) == <<e.history_id, e.timestamp, e.session_id, e.user_id>>

EntryKeys(store) == { EntryKey(store[i]) : i \in 1..Len(store) }

\* C17 (as claimed, refuted): an entry that is in the primary store, or in the
\* file, stays in that store over every step that is not a delete request:
\* no save and no read removes it.
C17_OnlyDeleteRemoves ==
    [][ ~DeleteStep =>
        /\ EntryKeys(db) \subseteq EntryKeys(db')
        /\ EntryKeys(file.history) \subseteq EntryKeys(file'.history) ]_vars

\* the step is a read request: list, get_by_id or get_by_session
ReadStep ==
    /\ saves' = saves
    /\ now' = now
    /\ last'.op \in {"list", "get_by_id", "get_by_session"}

\* C18: list, get_by_id and get_by_session leave the contents of the primary
\* store and of the file as they are, answered by the primary store or by
\* the file.
C18_ReadsChangeNothing ==
    [][ ReadStep => db' = db /\ file' = file ]_vars

\* C18 witness: a list request was answered from the file, which holds an
\* entry, while the primary store holds one too
C18_Witness ==
    /\ Listed
    /\ last.path = "lookup_failed"
    /\ last.entry # <<>>
    /\ file.history # <<>>
    /\ db # <<>>

\* the file is missing or corrupt
MissingOrCorrupt(f) == f.st \in {"missing", "corrupt"}

\* the step is a save that handed a new entry to _fallback_save_to_json
FallbackSaveStep ==
    SaveStep /\ last'.path \in {"file", "insert_failed", "insert_backup_failed"}

\* C19 (as claimed, refuted): a missing or corrupt file counts as an empty
\* history: a fallback save into it leaves a file that holds the new entry
\* and nothing else, and the reads, merges and deletes that fall back to it
\* return an empty list, None or false and do not raise.
C19_MissingOrCorruptIsEmpty ==
    [][ MissingOrCorrupt(file) =>
        /\ FallbackSaveStep
           => file' = JsonFile(<<TravelPackageHistory(last'.travel_packages,
                                   last'.user_id, last'.session_id, now)>>)
        /\ ((ReadStep \/ DeleteStep \/ MergeStep) /\ last'.path # "primary")
           => ~last'.raised /\ last'.entry = <<>> /\ ~last'.deleted ]_vars

\* ---------------------------------------------------------------------------
\* the merge
\* ---------------------------------------------------------------------------

\* the place in the primary store of the entry a save for the session finds
Found(session_id) == FirstIndex(db, "session_id", session_id)

\* the incoming packages whose package_id the existing list does not hold,
\* in the order they came in
NotYetHeld(existing, incoming) ==
    SelectSeq(incoming, LAMBDA p :
        \A i \in 1..Len(existing) : existing[i].package_id # p.package_id)

\* C20: a save that finds an entry of its session returns that entry's
\* history_id, and when update_one goes through the entry, with the same
\* history_id, holds its former travel_packages followed by the incoming
\* packages whose package_id was not among them, in input order; an empty
\* incoming list leaves the entry as it was.
C20_MergeAppendsNewIds ==
    [][ MergeStep =>
        LET k == Found(last'.session_id)
        IN /\ k # 0
           /\ last'.history_id = db[k].history_id
           /\ last'.path \in {"update", "update_backup_failed"}
              => /\ db'[k].history_id = db[k].history_id
                 /\ db'[k].travel_packages =
                        db[k].travel_packages
                          \o NotYetHeld(db[k].travel_packages, last'.travel_packages)
                 /\ last'.travel_packages = <<>> => db'[k] = db[k] ]_vars

\* C20 witness: a save of packages 1, 2, 2 found the entry that held package
\* 1 and left it holding its package 1, then the two packages 2 as they came
C20_Witness ==
    /\ last.op = "save"
    /\ last.path = "update"
    /\ last.travel_packages = <<Pkg(1, "b"), Pkg(2, "a"), Pkg(2, "b")>>
    /\ Found(last.session_id) # 0
    /\ db[Found(last.session_id)].history_id = last.history_id
    /\ db[Found(last.session_id)].travel_packages =
           <<Pkg(1, "a"), Pkg(2, "a"), Pkg(2, "b")>>

\* the history ids of a store, in store order
HistoryIdsOf(store) == [i \in 1 .. Len(store) |-> store[i].history_id]

NoRepeats(s) == \A i, j \in 1 .. Len(s) : s[i] = s[j] => i = j

\* C21: no two entries of the primary store share a history_id, and no two
\* entries of the backup file do, whatever the sessions and the second in
\* which they were created.
C21_UniqueHistoryIds ==
    /\ NoRepeats(HistoryIdsOf(db))
    /\ NoRepeats(HistoryIdsOf(file.history))

\* C23: a save that goes to the file while the directory of the backup file
\* does not exist creates the directory and leaves the file holding the
\* saved entry.
C23_FallbackCreatesDirectory ==
    [][ (SaveStep /\ last'.path = "file" /\ ~dirExists)
        => /\ dirExists'
           /\ Readable(file')
           /\ OfId(file'.history, last'.history_id) # <<>> ]_vars

\* the package lists held by the entries of either store
StoredPackageLists ==
    {db[i].travel_packages : i \in 1 .. Len(db)}
        \cup {file.history[i].travel_packages : i \in 1 .. Len(file.history)}

\* a save that found an entry of its session and merged into the file
FallbackMergeStep ==
    MergeStep /\ last'.path \in {"update_failed", "update_backup_failed"}

\* C22: the merge of the file path gives what the merge of the primary path
\* gives, for every stored package list and every incoming list; a save that
\* merges into the file leaves the file's entry with the primary rule's
\* result, and when update_one went through on an entry equal to the file's,
\* the two stores hold the same merged list.
C22_FallbackMergeIsPrimaryMerge ==
    [][ /\ \A existing \in StoredPackageLists, incoming \in PackageLists \cup {<<>>} :
             FallbackMergePackages(existing, incoming) = MergePackages(existing, incoming)
        /\ FallbackMergeStep
           => LET hid == last'.history_id
                  i == FirstIndex(file.history, "history_id", hid)
                  k == Found(last'.session_id)
              IN (Readable(file) /\ i # 0)
                 => /\ FirstIndex(file'.history, "history_id", hid) = i
                    /\ file'.history[i].travel_packages =
                           MergePackages(file.history[i].travel_packages,
                                         last'.travel_packages)
                    /\ ( /\ last'.path = "update_backup_failed"
                         /\ file.history[i].travel_packages = db[k].travel_packages )
                       => file'.history[i].travel_packages = db'[k].travel_packages
      ]_vars

\* C22 witness: update_one went through, the find({}) after it raised, and
\* the file's entry was merged from package 1 to packages 1, 2, 2, as the
\* primary store's entry was
C22_Witness ==
    /\ last.op = "save"
    /\ last.path = "update_backup_failed"
    /\ last.travel_packages = <<Pkg(1, "b"), Pkg(2, "a"), Pkg(2, "b")>>
    /\ OfId(file.history, last.history_id) # <<>>
    /\ OfId(file.history, last.history_id)[1].travel_packages =
           <<Pkg(1, "a"), Pkg(2, "a"), Pkg(2, "b")>>
    /\ OfId(db, last.history_id) = OfId(file.history, last.history_id)

\* C29: get_by_id and get_by_session return the first entry, in store order,
\* of the store they consulted that carries the history_id or the session_id
\* asked for, and None, as a value, exactly when that store holds none.
C29_FirstMatchOrNone ==
    last.op \in {"get_by_id", "get_by_session"}
    => LET matching == IF last.op = "get_by_id"
                       THEN OfId(StoreRead, last.history_id)
                       ELSE OfSession(StoreRead, last.session_id)
       IN /\ ~last.raised
          /\ last.entry = IF matching = <<>> THEN <<>> ELSE <<matching[1]>>

\* ---------------------------------------------------------------------------
\* the POST handler
\* ---------------------------------------------------------------------------

\* the step is a POST /travel-packages that was answered
HandlerStep == SaveStep /\ last'.token # None /\ ~last'.raised

\* the session ids of the entries of a store
SessionIdsOf(store) == {store[i].session_id : i \in 1 .. Len(store)}

\* the save created an entry
Created(path) == path \in {"insert", "insert_failed", "insert_backup_failed", "file"}

\* C25: the handler hands the repository a session_id that is not empty: the
\* body's sessionId when that is given, else the query parameter when that
\* is given, else the random token; it answers with that session_id, and the
\* repository stores the entry it creates under that session_id and changes
\* no entry's session_id.
C25_SessionIdChosenAndKept ==
    [][ HandlerStep =>
        LET body == last'.request.sessionId
            expected == IF body # None /\ body # "" THEN body
                        ELSE IF last'.query # None /\ last'.query # ""
                        THEN last'.query
                        ELSE last'.token
        IN /\ expected \notin {None, ""}
           /\ last'.session_id = expected
           /\ last'.response.session_id = expected
           /\ last'.response.history_id = last'.history_id
           /\ \A i \in 1 .. Len(db) : db'[i].session_id = db[i].session_id
           /\ SessionIdsOf(db') \subseteq SessionIdsOf(db) \cup {expected}
           /\ SessionIdsOf(file'.history)
                 \subseteq SessionIdsOf(file.history) \cup SessionIdsOf(db') \cup {expected}
           /\ last'.path \in {"insert", "insert_backup_failed"}
              => OfId(db', last'.history_id)[1].session_id = expected
           /\ (last'.path = "file" /\ dirExists)
              => \E i \in 1 .. Len(file'.history) :
                    /\ file'.history[i].history_id = last'.history_id
                    /\ file'.history[i].session_id = expected ]_vars

\* C25 witness: a request with an empty sessionId in the body and no query
\* parameter was answered with the token, and the entry created for it is
\* stored under the token
C25_Witness ==
    /\ last.op = "save"
    /\ last.request.sessionId = ""
    /\ last.query = None
    /\ last.token = "s2"
    /\ last.path = "insert"
    /\ last.response.session_id = "s2"
    /\ OfId(db, last.response.history_id) # <<>>
    /\ OfId(db, last.response.history_id)[1].session_id = "s2"

\* C28: the entry a POST /travel-packages creates holds the message of the
\* request.
C28_MessageStored ==
    [][ (HandlerStep /\ last'.path = "insert")
        => OfId(db', last'.history_id)[1].message = last'.request.message ]_vars

\* ---------------------------------------------------------------------------
\* requests served side by side
\* ---------------------------------------------------------------------------

\* worker p's update_one went through in this step
UpdateStep(p) ==
    /\ procs[p].pc = "write"
    /\ procs[p].op = "save"
    /\ procs[p].existing_entry # <<>>
    /\ procs'[p].pc = "find"

\* the save of worker p found an entry and ran to its end on the primary path
UpdateDone(p) ==
    /\ procs[p].pc = "idle"
    /\ procs[p].op = "save"
    /\ procs[p].existing_entry # <<>>
    /\ procs[p].trail = <<"lookup", "write", "find", "backup">>

\* C26: an update_one of a save takes a package id away from the entry of its
\* session only when another worker wrote to the primary store between the
\* save's lookup and its update_one; a save that was not overtaken leaves
\* the entry with the merge of what it held and the incoming list.
C26_LossOnlyWhenOvertaken ==
    [][ \A p \in Procs :
          UpdateStep(p) =>
            LET k == FirstIndex(db, "session_id", procs[p].session_id)
            IN k # 0 =>
                 /\ ~procs[p].stale
                    => db'[k].travel_packages =
                          MergePackages(db[k].travel_packages, procs[p].travel_packages)
                 /\ ~(PackageIds(db[k].travel_packages)
                        \subseteq PackageIds(db'[k].travel_packages))
                    => procs[p].stale ]_vars

\* C26 witness: two saves for one session that had an entry both ran to
\* their end on the primary path; one of them appended package 2, which the
\* entry it found did not hold, and the stored entry holds no package 2
C26_Witness ==
    \E p, q \in Procs :
        /\ p # q
        /\ UpdateDone(p)
        /\ UpdateDone(q)
        /\ procs[p].session_id = procs[q].session_id
        /\ procs[p].existing_entry = procs[q].existing_entry
        /\ 2 \in PackageIds(procs[p].travel_packages)
        /\ 2 \notin PackageIds(procs[p].existing_entry[1].travel_packages)
        /\ OfSession(db, procs[p].session_id) # <<>>
        /\ OfSession(db, procs[p].session_id)[1].history_id = procs[p].history_id
        /\ 2 \notin PackageIds(OfSession(db, procs[p].session_id)[1].travel_packages)
        /\ Readable(file)
        /\ file.history = db

\* the worker's last method was a save or a delete that ran to its end on
\* the primary path, snapshot included
WriteDone(p) ==
    /\ procs[p].pc = "idle"
    /\ procs[p].op \in {"save", "delete"}
    /\ procs[p].trail # <<>>
    /\ procs[p].trail[Len(procs[p].trail)] = "backup"

\* C30: when the two workers' writes have both run to their end on the
\* primary path, the backup file holds what the primary store holds.
C30_FileEqualsPrimaryAfterWrites ==
    (\A p \in Procs : WriteDone(p))
    => /\ Readable(file)
       /\ file.history = db

\* the worker is in the middle of a method
Busy(p) == procs[p].pc \notin {"new", "idle"}

\* the place of a step in the trail of a method, 0 when it was not taken
Place(trail, step) ==
    IF \E i \in 1 .. Len(trail) : trail[i] = step
    THEN CHOOSE i \in 1 .. Len(trail) : trail[i] = step
    ELSE 0

\* the steps of a method so far: no step taken twice, the calls to the
\* primary store in the method's one order, and nothing after the fallback
\* or after the snapshot
OnePass(trail) ==
    /\ NoRepeats(trail)
    /\ \A i \in 1 .. Len(trail) :
          trail[i] \in {"fallback", "backup"} => i = Len(trail)
    /\ Place(trail, "write") # 0 => Place(trail, "lookup") < Place(trail, "write")
    /\ Place(trail, "find") # 0 => Place(trail, "write") + 1 = Place(trail, "find")
    /\ Place(trail, "backup") # 0 => Place(trail, "find") + 1 = Place(trail, "backup")

\* C27: every method ends, and on its way makes each of its calls to the
\* primary store at most once and passes over the file at most once; after
\* the fallback no call to the primary store follows, and no step is taken
\* again.
C27_OnePassThenDone ==
    /\ [](\A p \in Procs :
            /\ OnePass(procs[p].trail)
            /\ Busy(p) => Place(procs[p].trail, procs[p].pc) = 0)
    /\ \A p \in Procs : Busy(p) ~> ~Busy(p)

\* C27 witness: a save whose find_one answered and whose insert_one raised
\* is done after its one fallback
C27_Witness ==
    \E p \in Procs :
        /\ procs[p].pc = "idle"
        /\ procs[p].op = "save"
        /\ procs[p].fails.write
        /\ procs[p].trail = <<"lookup", "write", "fallback">>

\* the steps that call the primary store
PrimarySteps == {"lookup", "write", "find"}

\* C24: a repository whose construction found the primary store unreachable
\* makes no call to the primary store in any of its methods, and every
\* method it has run went to the file.
C24_DisabledNeverContacts ==
    \A p \in Procs :
        (procs[p].mongo_uri = None /\ procs[p].op # "none")
        => /\ procs[p].pc \notin PrimarySteps
           /\ \A i \in 1 .. Len(procs[p].trail) : procs[p].trail[i] \notin PrimarySteps
           /\ procs[p].pc = "idle" => procs[p].trail = <<"fallback">>

====
